---- MODULE Spec2Model ----
(***************************************************************************)
(* A model of rtic-scope/racer: the ingestion stream of                    *)
(* src/src/event_stream.rs (EventStream::stream, an unfold over State),    *)
(* the span model and the viewport of src/src/timeline.rs (Grid),          *)
(* Timeline::update, which applies the items of the stream to the Grid,    *)
(* and the colours canvas::Program::draw gives the bars.                   *)
(*                                                                         *)
(* Bytes and characters are integers (a byte's value, a character's code   *)
(* point).  The wire alphabet is the newline, the digit '1' and the two    *)
(* bytes of U+00E9, so that a chunk boundary can fall inside a character.  *)
(***************************************************************************)
EXTENDS Integers, Sequences, FiniteSets, Bags, TLC

\* The number of bytes the peer sends in one session.
MaxBytes == 5

VARIABLES
    state,      \* State: "Initializing", "Listening", "Running", "Done"
    buffer,     \* State::Running.buffer, a String (sequence of code points)
    output,     \* the items the unfold stream has yielded so far
    finished,   \* the unfold closure has returned None: the stream is over
    chunks      \* history: the chunks `stream.next()` has returned, in order

streamVars == <<state, buffer, output, finished, chunks>>

VARIABLES
    zoom,           \* Grid.zoom: f32, px / ns
    pan,            \* Grid.pan: f32, ns
    bars,           \* Grid.bars: IntervalTree<usize, Bar>, a bag of entries
    started_bars,   \* Grid.started_bars: Vec<Bar>
    channel_map,    \* Grid.channel_map: Vec<String>
    status,         \* Grid.status: a String, as the pieces it was formatted from
    min,            \* Grid.min
    max,            \* Grid.max
    width,          \* Grid.width
    bar_cache,      \* Grid.bar_cache: "empty" or "drawn"
    grid_cache,     \* Grid.grid_cache: "empty" or "drawn"
    timestamps      \* history: the timestamps add_event has been given

gridVars == <<zoom, pan, bars, started_bars, channel_map, status, min, max,
              width, bar_cache, grid_cache>>

historyVars == <<timestamps>>

VARIABLES
    delivered,      \* how many items of `output` Timeline::update has been given
    interaction,    \* Grid.interaction: Interaction::None or Panning { start }
    gestures        \* history: how many presses, drags and wheel events were handled

uiVars == <<delivered, interaction, gestures>>

vars == <<streamVars, gridVars, historyVars, uiVars>>

---------------------------------------------------------------------------
(* event_stream.rs                                                         *)

\* The byte values the peer may send: '\n', '1', and 0xC3 0xA9 (U+00E9).
Bytes == {10, 49, 195, 169}

\* '\n', the frame delimiter searched by buffer.find.
NL == 10

\* U+FFFD REPLACEMENT CHARACTER, what from_utf8_lossy puts for ill-formed bytes.
REPLACEMENT == 65533

\* String::from_utf8_lossy on one chunk, for sequences of one or two bytes:
\* an ASCII byte is itself, a two-byte lead followed by a continuation byte
\* is one character, and any other byte is replaced by U+FFFD.
RECURSIVE from_utf8_lossy(_)
from_utf8_lossy(v) ==
    IF v = <<>> THEN <<>>
    ELSE IF v[1] < 128 THEN <<v[1]>> \o from_utf8_lossy(Tail(v))
    ELSE IF v[1] \in 194..223 /\ Len(v) >= 2 /\ v[2] \in 128..191
         THEN <<(v[1] - 192) * 64 + (v[2] - 128)>>
                  \o from_utf8_lossy(SubSeq(v, 3, Len(v)))
    ELSE <<REPLACEMENT>> \o from_utf8_lossy(Tail(v))

\* str::find(c): the 1-based index of the first c in s, 0 for Option::None.
RECURSIVE find_from(_, _, _)
find_from(s, c, i) ==
    IF i > Len(s) THEN 0
    ELSE IF s[i] = c THEN i
    ELSE find_from(s, c, i + 1)

find(s, c) == find_from(s, c, 1)

\* Progress, with the same fields in every variant.
NoChunk == [timestamp |-> 0, events |-> <<>>]
NoError == [kind |-> "none", msg |-> <<>>, line |-> <<>>]
Initialized == [type |-> "Initialized", chunk |-> NoChunk, error |-> NoError]
Connected == [type |-> "Connected", chunk |-> NoChunk, error |-> NoError]
ProgressNone == [type |-> "None", chunk |-> NoChunk, error |-> NoError]
ProgressEvent(c) == [type |-> "Event", chunk |-> c, error |-> NoError]
ProgressError(e) == [type |-> "Error", chunk |-> NoChunk, error |-> e]

\* Error
ErrorTempDir == [kind |-> "TempDir", msg |-> <<>>, line |-> <<>>]
ErrorIo == [kind |-> "Io", msg |-> <<>>, line |-> <<>>]
ErrorSerialize(msg, line) == [kind |-> "Serialize", msg |-> msg, line |-> line]

\* The wire grammar standing in for the EventChunk JSON grammar: a line is a
\* message when it is one decimal digit (the timestamp) followed by any
\* number of non-ASCII characters, each one a Task record entered under
\* that one-character name.  The empty line is no message.
IsDigit(c) == c \in 48..57
IsNameChar(c) == c >= 128

\* The first column (1-based) at which `line` stops being a message, 0 when
\* it is one; a line that ends too early fails at column Len(line) + 1.
RECURSIVE bad_column(_, _)
bad_column(line, i) ==
    IF i > Len(line) THEN (IF i = 1 THEN 1 ELSE 0)
    ELSE IF i = 1 THEN (IF IsDigit(line[1]) THEN bad_column(line, 2) ELSE 1)
    ELSE IF IsNameChar(line[i]) THEN bad_column(line, i + 1)
    ELSE i

TaskRecord(c) == [type |-> "Task", name |-> <<c>>, action |-> "Entered"]

\* serde_json::from_str::<EventChunk>(line): Ok(chunk) or Err(e), with
\* e.to_string() the failure and where it happened.
from_str(line) ==
    LET col == bad_column(line, 1) IN
    IF col = 0
    THEN [ok |-> TRUE,
          chunk |-> [timestamp |-> line[1] - 48,
                     events |-> [i \in 1..(Len(line) - 1) |-> TaskRecord(line[i + 1])]],
          msg |-> <<>>]
    ELSE [ok |-> FALSE,
          chunk |-> NoChunk,
          msg |-> <<IF col > Len(line) THEN "EOF while parsing a value"
                                       ELSE "expected value",
                    "column", col - 1>>]

\* running_chunk as it would be if a line that is no message were skipped:
\* the line is dropped, a no-op is yielded and the decoder carries on.
running_chunk_skipping(buf, v) ==
    LET appended == buf \o from_utf8_lossy(v)
        location == find(appended, NL)
    IN  IF location # 0
        THEN LET rest == SubSeq(appended, location + 1, Len(appended))
                 line == SubSeq(appended, 1, location - 1)
                 parsed == from_str(line)
             IN  IF parsed.ok
                 THEN [item |-> ProgressEvent(parsed.chunk),
                       state |-> "Running", buffer |-> rest]
                 ELSE [item |-> ProgressNone, state |-> "Running", buffer |-> rest]
        ELSE [item |-> ProgressNone, state |-> "Running", buffer |-> appended]

\* running_chunk as it would be if a read without a newline replaced the
\* buffer instead of being appended to it.
running_chunk_replacing(buf, v) ==
    LET appended == buf \o from_utf8_lossy(v)
        location == find(appended, NL)
    IN  IF location # 0
        THEN LET packet == SubSeq(appended, 1, location)
                 rest == SubSeq(appended, location + 1, Len(appended))
                 line == SubSeq(packet, 1, Len(packet) - 1)
                 parsed == from_str(line)
             IN  IF parsed.ok
                 THEN [item |-> ProgressEvent(parsed.chunk),
                       state |-> "Running", buffer |-> rest]
                 ELSE [item |-> ProgressError(ErrorSerialize(parsed.msg, line)),
                       state |-> "Done", buffer |-> <<>>]
        ELSE [item |-> ProgressNone, state |-> "Running",
              buffer |-> from_utf8_lossy(v)]

\* One pass of the State::Running arm on Some(Ok(v)): the item yielded and
\* the next state, from the buffer before the read.
running_chunk(buf, v) ==
    LET appended == buf \o from_utf8_lossy(v)
        location == find(appended, NL)
    IN  IF location # 0
        THEN LET packet == SubSeq(appended, 1, location)
                 rest == SubSeq(appended, location + 1, Len(appended))
                 line == SubSeq(packet, 1, Len(packet) - 1)
                 parsed == from_str(line)
             IN  IF parsed.ok
                 THEN [item |-> ProgressEvent(parsed.chunk),
                       state |-> "Running", buffer |-> rest]
                 ELSE [item |-> ProgressError(ErrorSerialize(parsed.msg, line)),
                       state |-> "Done", buffer |-> <<>>]
        ELSE [item |-> ProgressNone, state |-> "Running", buffer |-> appended]

StreamInit ==
    /\ state = "Initializing"
    /\ buffer = <<>>
    /\ output = <<>>
    /\ finished = FALSE
    /\ chunks = <<>>

\* State::Initializing: the directory and the socket are made.
InitializeOk ==
    /\ ~finished /\ state = "Initializing"
    /\ output' = Append(output, Initialized)
    /\ state' = "Listening"
    /\ UNCHANGED <<buffer, finished, chunks>>
    /\ UNCHANGED <<gridVars, historyVars, uiVars>>

\* State::Initializing: TempDir::new or UnixListener::bind fails.
InitializeErr ==
    /\ ~finished /\ state = "Initializing"
    /\ \E e \in {ErrorTempDir, ErrorIo} :
           output' = Append(output, ProgressError(e))
    /\ state' = "Done"
    /\ UNCHANGED <<buffer, finished, chunks>>
    /\ UNCHANGED <<gridVars, historyVars, uiVars>>

\* AcceptOk as it would be if the listener were kept and polled again.
AcceptOk_keeps_listening ==
    /\ ~finished /\ state = "Listening"
    /\ Len(output) < 4
    /\ output' = Append(output, Connected)
    /\ state' \in {"Listening", "Running"}
    /\ buffer' = <<>>
    /\ UNCHANGED <<finished, chunks>>
    /\ UNCHANGED <<gridVars, historyVars, uiVars>>

\* State::Listening: listener.accept() returns a connection.
AcceptOk ==
    /\ ~finished /\ state = "Listening"
    /\ output' = Append(output, Connected)
    /\ state' = "Running"
    /\ buffer' = <<>>
    /\ UNCHANGED <<finished, chunks>>
    /\ UNCHANGED <<gridVars, historyVars, uiVars>>

\* State::Listening: listener.accept() fails.
AcceptErr ==
    /\ ~finished /\ state = "Listening"
    /\ output' = Append(output, ProgressError(ErrorIo))
    /\ state' = "Done"
    /\ UNCHANGED <<buffer, finished, chunks>>
    /\ UNCHANGED <<gridVars, historyVars, uiVars>>


RECURSIVE Flatten(_)
Flatten(ss) == IF ss = <<>> THEN <<>> ELSE Head(ss) \o Flatten(Tail(ss))

\* The non-empty byte strings of length at most n.
RECURSIVE BytesUpTo(_)
BytesUpTo(n) ==
    IF n = 0 THEN {}
    ELSE LET shorter == BytesUpTo(n - 1)
         IN  {<<b>> : b \in Bytes} \cup shorter
                 \cup {Append(s, b) : s \in shorter, b \in Bytes}

\* ReadChunk as it would be if every complete line of the buffer were
\* decoded and yielded on the read that completes it.
RECURSIVE drained(_, _)
drained(items, r) ==
    IF r.state = "Running" /\ r.item.type = "Event" /\ find(r.buffer, NL) # 0
    THEN drained(Append(items, r.item), running_chunk(r.buffer, <<>>))
    ELSE [items |-> Append(items, r.item), state |-> r.state, buffer |-> r.buffer]

ReadChunk_draining ==
    /\ ~finished /\ state = "Running"
    /\ \E v \in BytesUpTo(MaxBytes - Len(Flatten(chunks))) :
           \E r \in {drained(<<>>, running_chunk(buffer, v))} :
           /\ output' = output \o r.items
           /\ state' = r.state
           /\ buffer' = r.buffer
           /\ chunks' = Append(chunks, v)
    /\ UNCHANGED finished
    /\ UNCHANGED <<gridVars, historyVars, uiVars>>

\* State::Running: stream.next() returns Some(Ok(v)), v a non-empty chunk.
ReadChunk ==
    /\ ~finished /\ state = "Running"
    /\ \E v \in BytesUpTo(MaxBytes - Len(Flatten(chunks))) :
           \E r \in {running_chunk(buffer, v)} :
           /\ output' = Append(output, r.item)
           /\ state' = r.state
           /\ buffer' = r.buffer
           /\ chunks' = Append(chunks, v)
    /\ UNCHANGED finished
    /\ UNCHANGED <<gridVars, historyVars, uiVars>>

\* State::Running: stream.next() returns Some(Err(e)).
ReadErr ==
    /\ ~finished /\ state = "Running"
    /\ output' = Append(output, ProgressError(ErrorIo))
    /\ state' = "Done"
    /\ buffer' = <<>>
    /\ UNCHANGED <<finished, chunks>>
    /\ UNCHANGED <<gridVars, historyVars, uiVars>>

\* State::Running: stream.next() returns None, the peer has closed; the
\* closure returns None and the buffer is dropped with the state.
ReadEof ==
    /\ ~finished /\ state = "Running"
    /\ finished' = TRUE
    /\ UNCHANGED <<state, buffer, output, chunks>>
    /\ UNCHANGED <<gridVars, historyVars, uiVars>>

\* State::Done: the closure returns None.
DoneEnd ==
    /\ ~finished /\ state = "Done"
    /\ finished' = TRUE
    /\ UNCHANGED <<state, buffer, output, chunks>>
    /\ UNCHANGED <<gridVars, historyVars, uiVars>>

StreamNext ==
    \/ InitializeOk
    \/ InitializeErr
    \/ AcceptOk
    \/ AcceptErr
    \/ ReadChunk
    \/ ReadErr
    \/ ReadEof
    \/ DoneEnd

---------------------------------------------------------------------------
(* f32 arithmetic.  A finite value is an exact fraction n/d in lowest      *)
(* terms: the rounding of fraction bits is left out, and so is the sign of *)
(* zero; a sum is rounded as an f32 is where its magnitude is 2^23 or more *)
(* or its fraction is finer than 32-bit integers hold.  A finite value of  *)
(* magnitude beyond those integers is Huge: such values are not told       *)
(* apart, and only compared.  NaN and the two infinities are values of     *)
(* their own, as in IEEE 754.                                              *)

RECURSIVE Gcd(_, _)
Gcd(a, b) == IF b = 0 THEN a ELSE Gcd(b, a % b)

Abs(x) == IF x < 0 THEN -x ELSE x

Sign(x) == IF x < 0 THEN -1 ELSE IF x > 0 THEN 1 ELSE 0

NaN == [k |-> "nan", n |-> 0, d |-> 0]

Inf(s) == [k |-> "inf", n |-> s, d |-> 0]

\* A finite f32 of sign s too large for the integers of the model.
Huge(s) == [k |-> "huge", n |-> s, d |-> 0]

\* f32::MAX
f32_MAX == Huge(1)

\* n/d with d # 0, in lowest terms with a positive denominator.
Frac(n, d) ==
    IF d = 1 THEN [k |-> "num", n |-> n, d |-> 1]
    ELSE LET g == Gcd(Abs(n), Abs(d))
         IN  [k |-> "num", n |-> Sign(d) * (n \div g), d |-> Abs(d) \div g]

\* (an/ad) * (bn/bd) for fractions in lowest terms, the common factors
\* taken out before multiplying: what is left is in lowest terms.
FracMul(an, ad, bn, bd) ==
    LET g1 == Gcd(Abs(an), bd)
        g2 == Gcd(Abs(bn), ad)
        h1 == IF g1 = 0 THEN 1 ELSE g1
        h2 == IF g2 = 0 THEN 1 ELSE g2
        x == an \div h1
        y == bn \div h2
    IN  IF y # 0 /\ Abs(x) > 2147483647 \div Abs(y)
        THEN Huge(Sign(x) * Sign(y))
        ELSE IF x = 0 \/ y = 0 THEN [k |-> "num", n |-> 0, d |-> 1]
        ELSE [k |-> "num", n |-> x * y, d |-> (ad \div h2) * (bd \div h1)]

\* an/ad < bn/bd for positive denominators, by integer parts and then the
\* reciprocals of the fractional parts (no product is formed).
RECURSIVE FracLt(_, _, _, _)
FracLt(an, ad, bn, bd) ==
    LET qa == an \div ad
        qb == bn \div bd
        ra == an % ad
        rb == bn % bd
    IN  IF qa # qb THEN qa < qb
        ELSE IF rb = 0 THEN FALSE
        ELSE IF ra = 0 THEN TRUE
        ELSE FracLt(bd, rb, ad, ra)

\* `x as f32` for an unsigned integer small enough to be exact.
F(x) == Frac(x, 1)

FNeg(a) == IF a.k = "nan" THEN NaN ELSE [a EXCEPT !.n = -a.n]

\* From 2^23 on an f32 has no fraction bits: its values are the multiples
\* of Spacing, which is 1 below 2^24 and doubles with every power of two.
RECURSIVE Spacing(_)
Spacing(m) == IF m < 16777216 THEN 1 ELSE 2 * Spacing(m \div 2)

\* The f32 nearest to m + n/d, for m >= 2^23 and 0 <= n < d: the nearest
\* multiple of the spacing, the even one when two are as near.
RoundLarge(m, n, d) ==
    LET s == Spacing(m)
        q == m \div s
        r == m % s
        up == \/ 2 * r > s
              \/ 2 * r = s /\ (n > 0 \/ q % 2 = 1)
              \/ s = 1 /\ (2 * n > d \/ (2 * n = d /\ q % 2 = 1))
    IN  IF up THEN (q + 1) * s ELSE q * s

\* The fraction bits an f32 of integer part m has, for 1 <= m < 2^23.
RECURSIVE FractionBits(_)
FractionBits(m) == IF m >= 4194304 THEN 1 ELSE 1 + FractionBits(2 * m)

RECURSIVE Pow2(_)
Pow2(k) == IF k = 0 THEN 1 ELSE 2 * Pow2(k - 1)

\* The first k bits q of the fraction n/d, 0 <= n < d, and what is left:
\* n/d = (q + r/d) / 2^k.  No product beyond d is formed.
RECURSIVE FracBits(_, _, _)
FracBits(n, d, k) ==
    IF k = 0 THEN [q |-> 0, r |-> n]
    ELSE LET b == FracBits(n, d, k - 1)
         IN  IF b.r >= d - b.r
             THEN [q |-> 2 * b.q + 1, r |-> b.r - (d - b.r)]
             ELSE [q |-> 2 * b.q, r |-> 2 * b.r]

\* The f32 nearest to m + n/d, for 1 <= m < 2^23 and 0 <= n < d: the
\* fraction is rounded to the fraction bits there are, to the even one when
\* two values are as near.
RoundSmall(m, n, d) ==
    LET k == FractionBits(m)
        b == FracBits(n, d, k)
        up == \/ b.r > d - b.r
              \/ b.r = d - b.r /\ b.q % 2 = 1
    IN  Frac(m * Pow2(k) + b.q + (IF up THEN 1 ELSE 0), Pow2(k))

\* i + n/d for 0 <= n < d as an f32: exact where the integers of the model
\* hold it and it is below 2^23 in magnitude, and rounded to the nearest f32
\* otherwise.
Rounded(i, n, d) ==
    LET neg == i < 0
        m == IF ~neg THEN i ELSE IF n = 0 THEN -i ELSE -i - 1
        mn == IF neg /\ n # 0 THEN d - n ELSE n
    IN  IF m >= 8388608
        THEN F((IF neg THEN -1 ELSE 1) * RoundLarge(m, mn, d))
        ELSE IF m >= 1 /\ d > 2147483647 \div (m + 1)
        THEN (IF neg THEN FNeg(RoundSmall(m, mn, d)) ELSE RoundSmall(m, mn, d))
        ELSE Frac(i * d + n, d)

\* The sum is formed from the integer parts and the fractional parts, and
\* rounded where it is large.
FAdd(a, b) ==
    IF a.k = "nan" \/ b.k = "nan" THEN NaN
    ELSE IF a.k = "inf" /\ b.k = "inf" THEN (IF a.n = b.n THEN a ELSE NaN)
    ELSE IF a.k = "inf" THEN a
    ELSE IF b.k = "inf" THEN b
    ELSE LET g == Gcd(a.d, b.d)
             d == (a.d \div g) * b.d
             n == (a.n % a.d) * (b.d \div g) + (b.n % b.d) * (a.d \div g)
         IN  Rounded((a.n \div a.d) + (b.n \div b.d) + (n \div d), n % d, d)

FSub(a, b) == FAdd(a, FNeg(b))

FMul(a, b) ==
    IF a.k = "nan" \/ b.k = "nan" THEN NaN
    ELSE IF a.k = "inf" \/ b.k = "inf"
         THEN (IF a.n = 0 \/ b.n = 0 THEN NaN ELSE Inf(Sign(a.n) * Sign(b.n)))
    ELSE FracMul(a.n, a.d, b.n, b.d)

\* Division by zero gives an infinity, 0/0 and inf/inf give NaN.
FDiv(a, b) ==
    IF a.k = "nan" \/ b.k = "nan" THEN NaN
    ELSE IF a.k = "inf" THEN (IF b.k = "inf" THEN NaN
                              ELSE Inf(a.n * (IF b.n < 0 THEN -1 ELSE 1)))
    ELSE IF b.k = "inf" THEN F(0)
    ELSE IF b.n = 0 THEN (IF a.n = 0 THEN NaN ELSE Inf(Sign(a.n)))
    ELSE FracMul(a.n * Sign(b.n), a.d, b.d, Abs(b.n))

\* Where a value stands among the infinities, the huge and the rest.
Rank(a) ==
    IF a.k = "inf" THEN 2 * a.n ELSE IF a.k = "huge" THEN a.n ELSE 0

\* a < b; false when either is NaN.
FLt(a, b) ==
    IF a.k = "num" /\ b.k = "num" THEN FracLt(a.n, a.d, b.n, b.d)
    ELSE IF a.k = "nan" \/ b.k = "nan" THEN FALSE
    ELSE Rank(a) < Rank(b)

\* f32::max and f32::min: when one argument is NaN the other is returned.
f32_max(a, b) ==
    IF a.k = "nan" THEN b ELSE IF b.k = "nan" THEN a
    ELSE IF FLt(a, b) THEN b ELSE a

f32_min(a, b) ==
    IF a.k = "nan" THEN b ELSE IF b.k = "nan" THEN a
    ELSE IF FLt(b, a) THEN b ELSE a

---------------------------------------------------------------------------
(* timeline.rs: Grid                                                       *)

\* At most MaxSpans spans, open and closed together, are held at a time;
\* a mouse gesture handled in the session counts as one more.
MaxSpans == 3

\* The task names, the timestamps and the canvas widths of the inputs.
Names == {"A", "B"}

Times == {0, 1, 2}

Widths == {0, 1000}

\* Option<usize>
None == [some |-> FALSE, value |-> 0]

Some(x) == [some |-> TRUE, value |-> x]

\* struct Bar
Bar(start_ns, end_ns, isr, channel) ==
    [start_ns |-> start_ns, end_ns |-> end_ns, isr |-> isr, channel |-> channel]

\* EventType
Overflow == [type |-> "Overflow", name |-> "", action |-> ""]

Unknown == [type |-> "Unknown", name |-> "", action |-> ""]

Unmappable == [type |-> "Unmappable", name |-> "", action |-> ""]

Invalid == [type |-> "Invalid", name |-> "", action |-> ""]

Task(name, action) == [type |-> "Task", name |-> name, action |-> action]

TaskActions == {"Entered", "Exited", "Returned"}

EventTypes ==
    {Overflow, Unknown, Unmappable, Invalid}
        \cup {Task(n, a) : n \in Names, a \in TaskActions}

\* Grid::INITIAL_ZOOM and Grid::INITIAL_PAN
INITIAL_ZOOM == F(0)

INITIAL_PAN == Frac(1, 2)

\* 1e-8, the floor of set_zoom and update_zoom
ZOOM_FLOOR == Frac(1, 100000000)

\* 0.5, the ceiling of set_pan and update_pan
PAN_CEILING == Frac(1, 2)

\* The Grid as one value, for the methods below.
Grid ==
    [zoom |-> zoom, pan |-> pan, bars |-> bars, started_bars |-> started_bars,
     channel_map |-> channel_map, status |-> status, min |-> min, max |-> max,
     width |-> width, bar_cache |-> bar_cache, grid_cache |-> grid_cache]

SetGrid(g) ==
    /\ zoom' = g.zoom
    /\ pan' = g.pan
    /\ bars' = g.bars
    /\ started_bars' = g.started_bars
    /\ channel_map' = g.channel_map
    /\ status' = g.status
    /\ min' = g.min
    /\ max' = g.max
    /\ width' = g.width
    /\ bar_cache' = g.bar_cache
    /\ grid_cache' = g.grid_cache

\* Grid::set_zoom
set_zoom(g, z) == [g EXCEPT !.zoom = f32_max(z, ZOOM_FLOOR)]

\* Grid::set_pan
set_pan(g, p) == [g EXCEPT !.pan = f32_min(p, PAN_CEILING)]

\* Grid::set_bars
set_bars(g) == [g EXCEPT !.bars = EmptyBag]

\* Grid::new
new ==
    set_bars(set_zoom(
        [zoom |-> INITIAL_ZOOM, pan |-> INITIAL_PAN, bars |-> EmptyBag,
         started_bars |-> <<>>, channel_map |-> <<>>, status |-> <<>>,
         min |-> 0, max |-> 0, width |-> 0,
         bar_cache |-> "empty", grid_cache |-> "empty"],
        Frac(1280, 100)))

\* usize::max and usize::min
usize_max(a, b) == IF a >= b THEN a ELSE b

usize_min(a, b) == IF a <= b THEN a ELSE b

\* The screen coordinate of a timestamp, as draw computes a bar's left edge
\* (before it is clipped to the canvas).
screen_x(g, ns) == FAdd(FMul(F(ns), g.zoom), FMul(g.pan, g.zoom))

\* channel_map.iter().find_position(|c| *c == &name): the index, 0 for None.
find_position(channel_map_, name) == find(channel_map_, name)

\* entered_channel as it would be if a new name were put first, not last.
entered_channel_front(channel_map_, name) ==
    LET index == find_position(channel_map_, name)
    IN  IF index # 0
        THEN [channel |-> index - 1, channel_map |-> channel_map_]
        ELSE [channel |-> 0, channel_map |-> <<name>> \o channel_map_]

\* The channel of an entered task and the channel map after it.
entered_channel(channel_map_, name) ==
    LET index == find_position(channel_map_, name)
    IN  IF index # 0
        THEN [channel |-> index - 1, channel_map |-> channel_map_]
        ELSE [channel |-> Len(channel_map_),
              channel_map |-> Append(channel_map_, name)]

\* exit_matches as it would be with `<=` for `<`.
exit_matches_inclusive(bar, name, timestamp) ==
    bar.start_ns <= timestamp /\ bar.isr = name

\* exit_matches as it would be without the comparison of timestamps.
exit_matches_any_time(bar, name, timestamp) ==
    bar.isr = name

\* Whether an open bar is the one an exit of `name` at `timestamp` closes.
exit_matches(bar, name, timestamp) ==
    bar.start_ns < timestamp /\ bar.isr = name

\* find_started as it would be without the `break`: the last match wins.
RECURSIVE find_started_last(_, _, _, _)
find_started_last(started, name, timestamp, i) ==
    IF i > Len(started) THEN 0
    ELSE LET later == find_started_last(started, name, timestamp, i + 1)
         IN  IF later # 0 THEN later
             ELSE IF exit_matches(started[i], name, timestamp) THEN i
             ELSE 0

\* The loop over started_bars of the Exited arm: the index (1-based) of the
\* first matching bar from i on, 0 when `found` stays None.
RECURSIVE find_started(_, _, _, _)
find_started(started, name, timestamp, i) ==
    IF i > Len(started) THEN 0
    ELSE IF exit_matches(started[i], name, timestamp) THEN i
    ELSE find_started(started, name, timestamp, i + 1)

\* Vec::remove(i), i 1-based
remove(v, i) == SubSeq(v, 1, i - 1) \o SubSeq(v, i + 1, Len(v))

\* IntervalTree::insert(range, data)
insert(tree, lo, hi, data) ==
    tree (+) SetToBag({[start |-> lo, end |-> hi, data |-> data]})

\* The TaskAction::Entered arm.
task_entered(g, timestamp, name) ==
    LET c == entered_channel(g.channel_map, name)
    IN  [g EXCEPT !.channel_map = c.channel_map,
                  !.started_bars =
                      Append(g.started_bars, Bar(timestamp, None, name, c.channel))]

\* task_exited as it would be if an exit that matches nothing recorded a
\* span of its own, from the exit's timestamp on.
task_exited_recording(g, timestamp, name) ==
    LET found == find_started(g.started_bars, name, timestamp, 1)
    IN  IF found # 0
        THEN LET bar == [g.started_bars[found] EXCEPT !.end_ns = Some(timestamp)]
             IN  [g EXCEPT !.started_bars = remove(g.started_bars, found),
                           !.bars = insert(g.bars, bar.start_ns, timestamp, bar)]
        ELSE [g EXCEPT !.started_bars =
                           Append(g.started_bars, Bar(timestamp, None, name, 0))]

\* task_exited as it would be if the span closed stayed open as well.
task_exited_keeping_open(g, timestamp, name) ==
    LET found == find_started(g.started_bars, name, timestamp, 1)
    IN  IF found # 0
        THEN LET bar == [g.started_bars[found] EXCEPT !.end_ns = Some(timestamp)]
             IN  [g EXCEPT !.bars = insert(g.bars, bar.start_ns, timestamp, bar)]
        ELSE g

\* The TaskAction::Exited arm.
task_exited(g, timestamp, name) ==
    LET found == find_started(g.started_bars, name, timestamp, 1)
    IN  IF found # 0
        THEN LET bar == [g.started_bars[found] EXCEPT !.end_ns = Some(timestamp)]
             IN  [g EXCEPT !.started_bars = remove(g.started_bars, found),
                           !.bars = insert(g.bars, bar.start_ns, timestamp, bar)]
        ELSE g

\* The end of the EventType::Task arm: zoom and pan are fitted to
\* [min, max] over the canvas width and both caches are cleared.
fit(g) ==
    LET screen_start == F(0)
        screen_end == F(g.width)
        start == F(g.min)
        end == F(g.max)
        zoom_ == FDiv(FSub(screen_start, screen_end), FSub(start, end))
        pan_ == FSub(FDiv(screen_start, zoom_), start)
    IN  [set_pan(set_zoom(g, zoom_), pan_)
            EXCEPT !.bar_cache = "empty", !.grid_cache = "empty"]

\* The min and max accumulation at the head of add_event.
observe(g, timestamp) ==
    [g EXCEPT !.max = usize_max(g.max, timestamp),
              !.min = usize_min(g.min, timestamp)]

\* add_event as it would be if a Returned closed a span as an Exited does.
add_event_returned_exits(g, timestamp, event) ==
    LET g1 == observe(g, timestamp)
    IN  IF event.type = "Task"
        THEN fit(CASE event.action = "Entered" ->
                          task_entered(g1, timestamp, event.name)
                   [] OTHER -> task_exited(g1, timestamp, event.name))
        ELSE g1

\* Grid::add_event
add_event(g, timestamp, event) ==
    LET g1 == observe(g, timestamp)
    IN  IF event.type = "Task"
        THEN fit(CASE event.action = "Entered" ->
                          task_entered(g1, timestamp, event.name)
                   [] event.action = "Exited" ->
                          task_exited(g1, timestamp, event.name)
                   [] OTHER -> g1)
        ELSE g1

\* reset_state as it would be if the observed range were forgotten too.
reset_state_forgetting_range(g) ==
    [set_bars(g) EXCEPT !.zoom = INITIAL_ZOOM, !.pan = INITIAL_PAN,
                        !.grid_cache = "empty", !.bar_cache = "empty",
                        !.min = 0, !.max = 0]

\* reset_state as it would be if the channel map were cleared with bars.
reset_state_clearing_channels(g) ==
    [set_bars(g) EXCEPT !.zoom = INITIAL_ZOOM, !.pan = INITIAL_PAN,
                        !.grid_cache = "empty", !.bar_cache = "empty",
                        !.channel_map = <<>>]

\* Grid::reset_state
reset_state(g) ==
    [set_bars(g) EXCEPT !.zoom = INITIAL_ZOOM, !.pan = INITIAL_PAN,
                        !.grid_cache = "empty", !.bar_cache = "empty"]

SetGridInit ==
    /\ zoom = new.zoom
    /\ pan = new.pan
    /\ bars = new.bars
    /\ started_bars = new.started_bars
    /\ channel_map = new.channel_map
    /\ status = new.status
    /\ min = new.min
    /\ max = new.max
    /\ width = new.width
    /\ bar_cache = new.bar_cache
    /\ grid_cache = new.grid_cache

GridInit ==
    /\ SetGridInit
    /\ timestamps = {}

\* Whether the session has room for one more span or gesture.
MoreGestures ==
    Len(started_bars) + BagCardinality(bars) + gestures < MaxSpans

\* Timeline::update(Message::Progress(Progress::Event)) for a chunk of one
\* record, that is one call of Grid::add_event.
AddEvent ==
    \E timestamp \in Times, event \in EventTypes :
        /\ (event.type = "Task" /\ event.action = "Entered") => MoreGestures
        /\ \E g \in {add_event(Grid, timestamp, event)} :
               /\ Len(g.started_bars) + BagCardinality(g.bars) + gestures <= MaxSpans
               /\ SetGrid(g)
        /\ timestamps' = timestamps \cup {timestamp}
        /\ UNCHANGED <<streamVars, uiVars>>

\* Timeline::update(Message::Reset)
Reset ==
    /\ \E g \in {reset_state(Grid)} : SetGrid(g)
    /\ UNCHANGED timestamps
    /\ UNCHANGED <<streamVars, uiVars>>

\* canvas::Program::update for an event it ignores: the width is recorded.
CanvasUpdate ==
    /\ \E w \in Widths : width' = w
    /\ UNCHANGED <<zoom, pan, bars, started_bars, channel_map, status, min,
                   max, bar_cache, grid_cache, timestamps>>
    /\ UNCHANGED <<streamVars, uiVars>>

GridNext ==
    \/ AddEvent
    \/ Reset
    \/ CanvasUpdate

---------------------------------------------------------------------------
(* timeline.rs: Timeline::update on the items of the subscription          *)

\* Grid::set_status
set_status(g, s) == [g EXCEPT !.status = s]

\* The three status texts of Timeline::update: the literal, and the two
\* format! results as their pieces ({:?} of an unnamed socket address, and
\* {:?} of the Error).
status_initialized == <<"Initialized. Waiting for connection.">>

status_connected == <<"Connected to ", "(unnamed)", ".">>

status_error(error) == <<"Error ", error>>

\* add_events as it would be if the records of a chunk were applied from
\* the last to the first.
RECURSIVE add_events_backwards(_, _, _)
add_events_backwards(g, timestamp, events) ==
    IF events = <<>> THEN g
    ELSE add_event(add_events_backwards(g, timestamp, Tail(events)),
                   timestamp, Head(events))

\* for event in events.events { self.grid.add_event(timestamp, event) }
\* (The Grid after a record is worked out before the next record is looked
\* at; add_event leaves the width as it is.)
RECURSIVE add_events(_, _, _)
add_events(g, timestamp, events) ==
    IF events = <<>> THEN g
    ELSE LET applied == add_event(g, timestamp, Head(events))
         IN  CASE applied.width = g.width ->
                      add_events(applied, timestamp, Tail(events))

\* update_progress as it would be if a chunk of events were reported in
\* the status.
update_progress_reporting_events(g, progress) ==
    CASE progress.type = "Initialized" -> set_status(g, status_initialized)
      [] progress.type = "Connected" -> set_status(g, status_connected)
      [] progress.type = "Event" ->
             set_status(add_events(g, progress.chunk.timestamp, progress.chunk.events),
                        <<"Event">>)
      [] progress.type = "Error" -> set_status(g, status_error(progress.error))
      [] OTHER -> g

\* The Message::Progress arm of Timeline::update.
update_progress(g, progress) ==
    CASE progress.type = "Initialized" -> set_status(g, status_initialized)
      [] progress.type = "Connected" -> set_status(g, status_connected)
      [] progress.type = "Event" ->
             add_events(g, progress.chunk.timestamp, progress.chunk.events)
      [] progress.type = "Error" -> set_status(g, status_error(progress.error))
      [] OTHER -> g

\* Timeline::update(Message::Progress(p)), p the next item the subscription
\* has yielded: the items reach update one at a time, in the order yielded.
UpdateProgress ==
    /\ delivered < Len(output)
    /\ \E progress \in {output[delivered + 1]} :
           /\ \E g \in {update_progress(Grid, progress)} : SetGrid(g)
           /\ timestamps' =
                  IF progress.type = "Event" /\ progress.chunk.events # <<>>
                  THEN timestamps \cup {progress.chunk.timestamp}
                  ELSE timestamps
    /\ delivered' = delivered + 1
    /\ UNCHANGED <<streamVars, interaction, gestures>>

AppNext ==
    \/ StreamNext
    \/ UpdateProgress
    \/ Reset

---------------------------------------------------------------------------
(* timeline.rs: canvas::Program::update, the mouse on the canvas           *)

\* The x coordinates of the cursor, and the y of a wheel event.
Cursors == {0, 1}

Deltas == {-200, 100}

\* enum Interaction
InteractionNone == [kind |-> "None", start |-> 0]

Panning(start) == [kind |-> "Panning", start |-> start]

\* Grid::update_zoom
update_zoom(g, delta) ==
    [g EXCEPT !.zoom =
        f32_max(FMul(g.zoom, FAdd(F(1), FDiv(delta, F(100)))), ZOOM_FLOOR)]

\* update_pan as it would be without the `min`.
update_pan_unclamped(g, delta) ==
    [g EXCEPT !.pan = FAdd(g.pan, FDiv(delta, g.zoom))]

\* Grid::update_pan
update_pan(g, delta) ==
    [g EXCEPT !.pan = f32_min(FAdd(g.pan, FDiv(delta, g.zoom)), PAN_CEILING)]

\* bar_cache.clear(); grid_cache.clear()
clear_caches(g) == [g EXCEPT !.bar_cache = "empty", !.grid_cache = "empty"]

\* mouse::Event::ButtonReleased: the drag ends, with or without a cursor
\* position.
ButtonReleased ==
    /\ \E w \in Widths : width' = w
    /\ interaction' = InteractionNone
    /\ UNCHANGED <<zoom, pan, bars, started_bars, channel_map, status, min,
                   max, bar_cache, grid_cache, timestamps>>
    /\ UNCHANGED <<streamVars, delivered, gestures>>

\* mouse::Event::ButtonPressed(mouse::Button::Right) at a cursor position.
ButtonPressedRight ==
    /\ MoreGestures
    /\ \E w \in Widths : width' = w
    /\ \E cursor_position \in Cursors : interaction' = Panning(cursor_position)
    /\ gestures' = gestures + 1
    /\ UNCHANGED <<zoom, pan, bars, started_bars, channel_map, status, min,
                   max, bar_cache, grid_cache, timestamps>>
    /\ UNCHANGED <<streamVars, delivered>>

\* mouse::Event::CursorMoved while panning.
CursorMoved ==
    /\ interaction.kind = "Panning"
    /\ MoreGestures
    /\ \E w \in Widths, cursor_position \in Cursors :
           /\ \E g \in {clear_caches(update_pan([Grid EXCEPT !.width = w],
                            F(cursor_position - interaction.start)))} : SetGrid(g)
           /\ interaction' = Panning(cursor_position)
    /\ gestures' = gestures + 1
    /\ UNCHANGED <<streamVars, delivered, timestamps>>

\* mouse::Event::WheelScrolled { delta } at a cursor position.
WheelScrolled ==
    /\ MoreGestures
    /\ \E w \in Widths, y \in Deltas :
           \E g \in {clear_caches(update_zoom([Grid EXCEPT !.width = w], F(y)))} :
               SetGrid(g)
    /\ gestures' = gestures + 1
    /\ UNCHANGED <<streamVars, delivered, interaction, timestamps>>

CanvasNext ==
    \/ GridNext
    \/ ButtonReleased
    \/ ButtonPressedRight
    \/ CursorMoved
    \/ WheelScrolled

UiInit ==
    /\ delivered = 0
    /\ interaction = InteractionNone
    /\ gestures = 0

---------------------------------------------------------------------------
(* timeline.rs: canvas::Program::draw, the colours of the bars             *)

\* The tasks of the firmware traced, and the names they may have.
MaxTasks == 11

TaskNames == <<"A", "B", "C", "D", "E", "F", "G", "H", "I", "J", "K", "L", "M">>

\* The chunks of the session: one record, or one record of every task.
ChunkSizes == {1, MaxTasks}

\* let palette = [...]: the number of its colours
PALETTE_LEN == 10

\* (0.0 - self.pan * self.zoom) / self.zoom
logical_start(g) == FDiv(FSub(F(0), FMul(g.pan, g.zoom)), g.zoom)

\* (bounds.size().width - self.pan * self.zoom) / self.zoom
logical_end(g, w) == FDiv(FSub(F(w), FMul(g.pan, g.zoom)), g.zoom)

\* ns < (x as usize): the cast cuts the fraction off, gives 0 for NaN and
\* for what is below 0, and usize::MAX for what is beyond it.
lt_as_usize(ns, x) ==
    IF x.k = "nan" THEN FALSE
    ELSE IF x.k # "num" THEN x.n > 0
    ELSE x.n > 0 /\ ns < x.n \div x.d

\* (x as usize) < ns
as_usize_lt(x, ns) ==
    IF x.k = "nan" THEN 0 < ns
    ELSE IF x.k # "num" THEN x.n < 0 /\ 0 < ns
    ELSE (IF x.n > 0 THEN x.n \div x.d ELSE 0) < ns

\* self.bars.find(logical_start.max(0.0) as usize
\*                    ..logical_end.min(f32::MAX) as usize):
\* the entries that overlap the range.
find_visible(g, w) ==
    LET lo == f32_max(logical_start(g), F(0))
        hi == f32_min(logical_end(g, w), f32_MAX)
    IN  {e \in BagToSet(g.bars) : lt_as_usize(e.start, hi) /\ as_usize_lt(lo, e.end)}

\* The values of isrs.len() in palette[isrs.len()]: a bar whose channel is
\* not in isrs yet takes the colour at the number of channels in it, and
\* its channel is inserted.
palette_indexes(g, w) ==
    LET channels == {e.data.channel : e \in find_visible(g, w)}
    IN  {i \in 0..Cardinality(channels) : i < Cardinality(channels)}

\* Indexing the palette beyond its colours panics.
draw_panics(g, w) == \E i \in palette_indexes(g, w) : i >= PALETTE_LEN

\* canvas::Program::draw on bounds of width w: an empty cache is filled by
\* its closure.  (A draw that panics ends the program: there is no step.)
Draw ==
    /\ \E w \in Widths :
           /\ bar_cache = "empty" => ~draw_panics(Grid, w)
           /\ bar_cache' = "drawn"
           /\ grid_cache' = "drawn"
    /\ UNCHANGED <<zoom, pan, bars, started_bars, channel_map, status, min,
                   max, width, timestamps>>
    /\ UNCHANGED <<streamVars, uiVars>>

\* Timeline::update(Message::Progress(Progress::Event(events))) for a chunk
\* of one Task record of each of the first k tasks, with a timestamp after
\* those of the chunks before it.
UpdateEvents ==
    \E timestamp \in Times, k \in ChunkSizes, action \in {"Entered", "Exited"} :
        /\ \A t \in timestamps : t < timestamp
        /\ \E g \in {update_progress(Grid, ProgressEvent(
                   [timestamp |-> timestamp,
                    events |-> [i \in 1..k |-> Task(TaskNames[i], action)]]))} :
               SetGrid(g)
        /\ timestamps' = timestamps \cup {timestamp}
        /\ UNCHANGED <<streamVars, uiVars>>

DrawNext ==
    \/ UpdateEvents
    \/ Reset
    \/ CanvasUpdate
    \/ Draw

---------------------------------------------------------------------------
(* The specifications: the stream alone, the grid alone, the stream with   *)
(* Timeline::update on its items, the grid with the mouse, and the grid    *)
(* with chunks of many tasks and the drawing.                              *)

Init ==
    /\ StreamInit
    /\ GridInit
    /\ UiInit

SpecStream ==
    /\ Init
    /\ [][StreamNext]_vars

SpecGrid ==
    /\ Init
    /\ [][GridNext]_vars

SpecApp ==
    /\ Init
    /\ [][AppNext]_vars

SpecCanvas ==
    /\ Init
    /\ [][CanvasNext]_vars

SpecDraw ==
    /\ Init
    /\ [][DrawNext]_vars

---------------------------------------------------------------------------
(* Properties of the ingestion stream (checked under SpecStream).          *)

\* The text received so far: each chunk decoded on its own, in read order.
RECURSIVE Text(_)
Text(cs) == IF cs = <<>> THEN <<>> ELSE from_utf8_lossy(Head(cs)) \o Text(Tail(cs))

HasNewline(text) == \E i \in 1..Len(text) : text[i] = NL

FirstNewline(text) ==
    CHOOSE i \in 1..Len(text) :
        text[i] = NL /\ \A j \in 1..(i - 1) : text[j] # NL

\* The complete frames of a text, each without its newline, in order.
RECURSIVE Frames(_)
Frames(text) ==
    IF ~HasNewline(text) THEN <<>>
    ELSE LET i == FirstNewline(text)
         IN  <<SubSeq(text, 1, i - 1)>> \o Frames(SubSeq(text, i + 1, Len(text)))

\* A line of the wire grammar.
IsMessage(line) ==
    /\ Len(line) >= 1
    /\ IsDigit(line[1])
    /\ \A i \in 2..Len(line) : IsNameChar(line[i])

IsEvent(p) == p.type = "Event"

EventsOf(items) == SelectSeq(items, IsEvent)

Last(s) == s[Len(s)]

\* The peer has closed after a run without error.
CleanEnd == finished /\ state = "Running"

\* The bytes form newline-terminated messages.
WellFormedStream(bytes) ==
    /\ bytes # <<>>
    /\ bytes[Len(bytes)] = NL
    /\ \A i \in 1..Len(Frames(from_utf8_lossy(bytes))) :
           IsMessage(Frames(from_utf8_lossy(bytes))[i])

\* The items yielded when the whole stream arrives as one chunk.
OneChunk(bytes) ==
    IF bytes = <<>> THEN <<>> ELSE <<running_chunk(<<>>, bytes).item>>

\* C1: for a byte stream of newline-terminated messages, the Events emitted
\* by the time the stream ends are the same however the stream was split
\* into chunks: the same as when it arrives in one chunk.
C1_ChunkingIndependent ==
    (CleanEnd /\ WellFormedStream(Flatten(chunks)))
        => EventsOf(output) = EventsOf(OneChunk(Flatten(chunks)))

\* C2: every complete frame read from the connection has been emitted as an
\* Event, in order, by the time the output sequence ends after a clean close.
C2_EveryFrameEmitted ==
    CleanEnd =>
        /\ Len(EventsOf(output)) = Len(Frames(Text(chunks)))
        /\ \A i \in 1..Len(Frames(Text(chunks))) :
               EventsOf(output)[i] = ProgressEvent(from_str(Frames(Text(chunks))[i]).chunk)

\* The shape after the first item: at most one Connected, in second place,
\* Events and no-ops only after it, an Error only as the last item, and in
\* Done the last item is that Error.
ShapeAfterFirst ==
    /\ \A i \in 1..Len(output) :
           /\ output[i].type = "Connected" => i = 2
           /\ output[i].type \in {"Event", "None"} =>
                  i >= 3 /\ output[2].type = "Connected"
           /\ output[i].type = "Error" => i = Len(output)
    /\ state = "Done" => (output # <<>> /\ Last(output).type = "Error")

\* C3 as stated: the output always starts with Initialized, followed by at
\* most one Connected, then Events and no-ops, with an Error only at the end
\* and nothing after Done.
C3_ShapeStartsInitialized ==
    /\ \A i \in 1..Len(output) : (i = 1) <=> (output[i].type = "Initialized")
    /\ ShapeAfterFirst

\* C3, amended: the output is the single Error of a failed setup, or it
\* starts with Initialized; then at most one Connected, then Events and
\* no-ops, with an Error only as the last item and nothing after Done.
C3_Shape ==
    /\ \A i \in 1..Len(output) : (i # 1) => (output[i].type # "Initialized")
    /\ output # <<>> =>
           \/ output[1].type = "Initialized"
           \/ output[1].type = "Error" /\ state = "Done"
    /\ ShapeAfterFirst

C3_Witness ==
    /\ finished /\ state = "Done" /\ Len(output) = 4
    /\ output[1].type = "Initialized" /\ output[2].type = "Connected"
    /\ output[3].type = "Event" /\ output[4].type = "Error"

\* C4: when the first buffered line after a read is no message (the empty
\* line included), the item emitted is one Error carrying the parser's
\* failure and the raw line, the state becomes Done, and from Done nothing
\* is emitted any more, whatever well-formed lines were buffered behind it.
C4_DecodeErrorIsTerminal ==
    /\ [][(state = "Running" /\ chunks' # chunks) =>
              LET text == buffer \o from_utf8_lossy(Last(chunks'))
                  line == SubSeq(text, 1, FirstNewline(text) - 1)
              IN  (HasNewline(text) /\ ~IsMessage(line)) =>
                      /\ output' = Append(output,
                             ProgressError(ErrorSerialize(from_str(line).msg, line)))
                      /\ from_str(line).msg # <<>>
                      /\ state' = "Done"]_vars
    /\ [][state = "Done" => output' = output]_vars

\* An empty first line ended the session while a well-formed frame had been
\* read behind it.
C4_Witness ==
    /\ finished /\ state = "Done"
    /\ Last(output).type = "Error"
    /\ Last(output).error.kind = "Serialize"
    /\ Last(output).error.line = <<>>
    /\ Len(Frames(Text(chunks))) >= 2
    /\ IsMessage(Frames(Text(chunks))[2])
    /\ EventsOf(output) = <<>>

\* C17: a chunk read in Running yields exactly one item: the Event of the
\* first buffered line when the buffer, with the chunk appended, holds a
\* newline and that line is a message (whatever complete lines follow it),
\* a no-op when it holds no newline, and an Error otherwise; so there are
\* never more Events than chunks read.
C17_OneItemPerChunk ==
    /\ [](Len(EventsOf(output)) <= Len(chunks))
    /\ [][(state = "Running" /\ chunks' # chunks) =>
              LET text == buffer \o from_utf8_lossy(Last(chunks'))
                  line == SubSeq(text, 1, FirstNewline(text) - 1)
              IN  /\ Len(output') = Len(output) + 1
                  /\ SubSeq(output', 1, Len(output)) = output
                  /\ Last(output') =
                         IF ~HasNewline(text) THEN ProgressNone
                         ELSE IF IsMessage(line)
                              THEN ProgressEvent(from_str(line).chunk)
                              ELSE ProgressError(
                                       ErrorSerialize(from_str(line).msg, line))]_vars

\* One chunk brought two complete messages: one Event was yielded for it
\* and the second message is still in the buffer.
C17_Witness ==
    /\ state = "Running"
    /\ chunks = <<<<49, NL, 49, NL>>>>
    /\ Len(output) = 3
    /\ Last(output) = ProgressEvent(from_str(<<49>>).chunk)
    /\ buffer = <<49, NL>>

---------------------------------------------------------------------------
(* Properties of the span model (checked under SpecGrid).  A property of   *)
(* one call of add_event is stated of every reachable Grid and every       *)
(* input: the Grid the call returns is compared with the Grid before it.   *)

Exited(name) == Task(name, "Exited")

Entered(name) == Task(name, "Entered")

SetMin(S) == CHOOSE x \in S : \A y \in S : x <= y

SetMax(S) == CHOOSE x \in S : \A y \in S : x >= y

\* The indexes of the open spans an exit of `name` at `t` may close.
Candidates(name, t) ==
    {i \in 1..Len(started_bars) :
        started_bars[i].isr = name /\ started_bars[i].start_ns < t}

\* s without its i-th element, the others in their order.
Without(s, i) == [k \in 1..(Len(s) - 1) |-> IF k < i THEN s[k] ELSE s[k + 1]]

\* The closed span made of an open span and an end.
Closed(open, t) ==
    [start |-> open.start_ns, end |-> t,
     data |-> Bar(open.start_ns, Some(t), open.isr, open.channel)]

\* C5: an Exited(name, t) removes exactly the first entry of started_bars,
\* in insertion order, whose name is `name` and whose start_ns is below t,
\* and no other; the remaining open spans keep their order, and the span
\* removed is the one inserted into bars, ended at t.
C5_FifoExit ==
    \A name \in Names, t \in Times :
        Candidates(name, t) # {} =>
            LET g == add_event(Grid, t, Exited(name))
                first == SetMin(Candidates(name, t))
            IN  /\ g.started_bars = Without(started_bars, first)
                /\ g.bars = bars (+) SetToBag({Closed(started_bars[first], t)})

\* Two spans of A are open, entered at 0 and at 1, and an exit of A at 2
\* closes the one entered at 0 and leaves the one entered at 1.
C5_Witness ==
    /\ started_bars = <<Bar(0, None, "A", 0), Bar(1, None, "B", 1), Bar(1, None, "A", 0)>>
    /\ add_event(Grid, 2, Exited("A")).started_bars =
           <<Bar(1, None, "B", 1), Bar(1, None, "A", 0)>>
    /\ BagIn(Closed(Bar(0, None, "A", 0), 2), add_event(Grid, 2, Exited("A")).bars)

\* C6: every span stored in bars has its end set, strictly after its start,
\* and is keyed by exactly [start_ns, end_ns).
C6_ClosedSpansOnly ==
    \A e \in BagToSet(bars) :
        /\ e.data.end_ns.some
        /\ e.data.end_ns.value > e.data.start_ns
        /\ e.start = e.data.start_ns
        /\ e.end = e.data.end_ns.value

\* Closed spans are held beside open ones, up to the bound.
C6_Witness ==
    /\ BagCardinality(bars) >= 2
    /\ started_bars # <<>>

\* C7: an Exited for which no open span has the same name and a start_ns
\* strictly below the exit's timestamp leaves bars and started_bars as
\* they were.
C7_UnmatchedExitIsNoOp ==
    \A name \in Names, t \in Times :
        Candidates(name, t) = {} =>
            LET g == add_event(Grid, t, Exited(name))
            IN  g.bars = bars /\ g.started_bars = started_bars

\* A is open since 2 and one span is closed: an exit of A at 2 (not after
\* the start) and an exit of B (never entered) both change nothing.
C7_Witness ==
    /\ started_bars = <<Bar(2, None, "A", 0)>>
    /\ BagCardinality(bars) = 1
    /\ "B" \notin {channel_map[i] : i \in 1..Len(channel_map)}
    /\ add_event(Grid, 2, Exited("A")).started_bars = started_bars
    /\ add_event(Grid, 2, Exited("B")).bars = bars

IsPrefix(s, t) == Len(s) <= Len(t) /\ \A i \in 1..Len(s) : t[i] = s[i]

ChannelNames == {channel_map[i] : i \in 1..Len(channel_map)}

\* C8: the first Entered of a name appends it to channel_map and the span
\* gets that last index; an Entered of a known name leaves channel_map alone
\* and the span gets the name's index; and no step of the session, a reset
\* included, moves or removes an entry of channel_map.
C8_ChannelIndexStable ==
    /\ [](\A name \in Names, t \in Times :
            LET g == add_event(Grid, t, Entered(name))
                span == Last(g.started_bars)
            IN  /\ name \notin ChannelNames =>
                       /\ g.channel_map = Append(channel_map, name)
                       /\ span.channel = Len(channel_map)
                /\ name \in ChannelNames =>
                       /\ g.channel_map = channel_map
                       /\ channel_map[span.channel + 1] = name
                /\ span.isr = name)
    /\ [][IsPrefix(channel_map, channel_map')]_vars

\* A, then B, then A again are open: A has kept index 0 with B in between.
C8_Witness ==
    /\ channel_map = <<"A", "B">>
    /\ Len(started_bars) = 3
    /\ started_bars[1].isr = "A" /\ started_bars[1].channel = 0
    /\ started_bars[2].isr = "B" /\ started_bars[2].channel = 1
    /\ started_bars[3].isr = "A" /\ started_bars[3].channel = 0

\* C9: after a span is inserted with a screen width W > 0, the smallest
\* timestamp observed maps to screen coordinate 0 and the largest to W.
C9_AutoFit ==
    \A name \in Names, t \in Times :
        LET g == add_event(Grid, t, Exited(name))
            seen == timestamps \cup {t}
        IN  (g.bars # bars /\ g.width > 0) =>
                /\ screen_x(g, SetMin(seen)) = F(0)
                /\ screen_x(g, SetMax(seen)) = F(g.width)

\* C10: min and max are the smallest and the largest timestamp of all the
\* events applied so far.
C10_DataRange ==
    timestamps # {} =>
        /\ min = SetMin(timestamps)
        /\ max = SetMax(timestamps)

---------------------------------------------------------------------------
(* Properties of the viewport, of Reset and of the records that are not    *)
(* spans (checked under SpecGrid, in the same way).                        *)

\* The records the span model has no use for.
NoOpRecords ==
    {Overflow, Unknown, Unmappable, Invalid} \cup {Task(n, "Returned") : n \in Names}

\* C12: Reset clears bars, started_bars and channel_map together: the Grid
\* reset_state leaves has all three empty.
C12_ResetClearsSpanModel ==
    LET g == reset_state(Grid)
    IN  /\ g.bars = EmptyBag
        /\ g.started_bars = <<>>
        /\ g.channel_map = <<>>

\* C13: after Reset, zoom and pan are those of a freshly created Grid and
\* both render caches are cleared.
C13_ResetRestoresInitialView ==
    LET g == reset_state(Grid)
    IN  /\ g.zoom = new.zoom
        /\ g.pan = new.pan
        /\ g.bar_cache = "empty"
        /\ g.grid_cache = "empty"

\* C15: Overflow, Task Returned, Unknown, Unmappable and Invalid records
\* leave bars, started_bars and channel_map as they were.
C15_NoOpRecords ==
    \A t \in Times, e \in NoOpRecords :
        LET g == add_event(Grid, t, e)
        IN  /\ g.bars = bars
            /\ g.started_bars = started_bars
            /\ g.channel_map = channel_map

\* Spans are open and closed, and a Returned at 2 is seen by the Grid (it
\* moves max and refits the viewport) without touching the span model.
C15_Witness ==
    /\ started_bars # <<>>
    /\ bars # EmptyBag
    /\ max < 2
    /\ add_event(Grid, 2, Task("A", "Returned")).max = 2
    /\ add_event(Grid, 2, Task("A", "Returned")).zoom # zoom
    /\ add_event(Grid, 2, Task("A", "Returned")).started_bars = started_bars

\* C18: on ingestion, zoom and pan are recomputed on exactly the events
\* that insert a span into bars: a record that inserts none leaves zoom and
\* pan as they were, and one that inserts a span leaves the fitted ones.
C18_FitOnlyOnSpanInsert ==
    \A t \in Times, e \in EventTypes :
        LET g == add_event(Grid, t, e)
        IN  IF g.bars = bars
            THEN g.zoom = zoom /\ g.pan = pan
            ELSE g.zoom = fit(g).zoom /\ g.pan = fit(g).pan

\* C19: when the fit runs with max = min, zoom and pan stay as they were
\* before the event.
C19_DegenerateFit ==
    \A t \in Times, e \in EventTypes :
        LET g == add_event(Grid, t, e)
        IN  (e.type = "Task" /\ g.max = g.min) =>
                g.zoom = zoom /\ g.pan = pan

\* C20: min never increases and max never decreases, whatever the step, and
\* reset_state leaves both as they were.
C20_RangeMonotone ==
    /\ [](LET g == reset_state(Grid) IN g.min = min /\ g.max = max)
    /\ [](\A t \in Times, e \in EventTypes :
            LET g == add_event(Grid, t, e) IN g.min <= min /\ g.max >= max)
    /\ [][min' <= min /\ max' >= max]_vars

\* Events up to timestamp 2 were applied, then a Reset (zoom is INITIAL_ZOOM,
\* bars is empty), and a span is still open: max has kept its value.
C20_Witness ==
    /\ max = 2
    /\ zoom = INITIAL_ZOOM
    /\ bars = EmptyBag
    /\ started_bars # <<>>

---------------------------------------------------------------------------
(* Properties of the viewport under the mouse (checked under SpecCanvas).  *)

\* C11: in every reachable state zoom is at least the positive floor, never
\* zero or negative.
C11_ZoomFloor ==
    /\ zoom.k # "nan"
    /\ ~FLt(zoom, ZOOM_FLOOR)

\* C14: in every reachable state pan is at most 0.5.
C14_PanCeiling ==
    /\ pan.k # "nan"
    /\ ~FLt(PAN_CEILING, pan)

\* A drag to the left after a Reset has divided by the zoom of zero and
\* left pan at minus infinity; dragging back would add plus infinity, and
\* update_pan then stores the ceiling.
C14_Witness ==
    /\ interaction = Panning(0)
    /\ gestures >= 2
    /\ pan = Inf(-1)
    /\ FAdd(pan, FDiv(F(1), zoom)) = NaN
    /\ update_pan(Grid, F(1)).pan = PAN_CEILING

---------------------------------------------------------------------------
(* Properties of the status line (checked under SpecApp).                  *)

IsLifecycle(p) == p.type \in {"Initialized", "Connected", "Error"}

\* The status text of a lifecycle signal.
StatusText(p) ==
    CASE p.type = "Initialized" -> <<"Initialized. Waiting for connection.">>
      [] p.type = "Connected" -> <<"Connected to ", "(unnamed)", ".">>
      [] p.type = "Error" -> <<"Error ", p.error>>

\* The status after the items given: that of the latest lifecycle signal,
\* the empty string before the first.
StatusAfter(items) ==
    IF SelectSeq(items, IsLifecycle) = <<>> THEN <<>>
    ELSE StatusText(Last(SelectSeq(items, IsLifecycle)))

\* The records a chunk may carry, under the names of the wire alphabet.
WireRecords ==
    {Overflow, Unknown, Unmappable, Invalid}
        \cup {Task(<<c>>, a) : c \in {233, REPLACEMENT}, a \in TaskActions}

\* C16: the status is that of the latest lifecycle signal (Initialized,
\* Connected, Error) Timeline::update has been given; while the connection
\* is read and update has been given every item so far, no record the next
\* Event may carry, of whatever kind and whether or not it matches an open
\* span, changes the status; and handling an item leaves the ingestion
\* stream as it is.
C16_StatusReflectsLifecycle ==
    /\ [](status = StatusAfter(SubSeq(output, 1, delivered)))
    /\ []((state = "Running" /\ ~finished /\ delivered = Len(output)) =>
             \A t \in Times, e \in WireRecords :
                 add_event(Grid, t, e).status = status)
    /\ [][delivered' # delivered => UNCHANGED streamVars]_vars

\* Initialized, Connected, an Event and a decode Error were yielded and
\* given to update in turn: the event was applied and the status is the
\* Error's.
C16_Witness ==
    /\ Len(output) = 4 /\ delivered = 4
    /\ output[3].type = "Event" /\ output[3].chunk.events # <<>>
    /\ started_bars # <<>>
    /\ output[4].type = "Error" /\ output[4].error.kind = "Serialize"
    /\ status = <<"Error ", output[4].error>>

---------------------------------------------------------------------------
(* Further properties of the span model (checked under SpecGrid).          *)

\* C21: a step closes at most one span: either bars is as it was (or was
\* emptied by a reset), or exactly one open span has left started_bars and
\* bars has gained exactly that span, with its name, channel and start_ns,
\* ended at the event's timestamp.  An open span is in started_bars once,
\* so it is closed at most once.
C21_OneClosedSpanPerExit ==
    [][\/ bars' = bars
       \/ bars' = EmptyBag /\ started_bars' = started_bars
       \/ \E i \in 1..Len(started_bars), t \in Times :
              /\ started_bars' = Without(started_bars, i)
              /\ bars' = bars (+) SetToBag({Closed(started_bars[i], t)})
              /\ t > started_bars[i].start_ns]_vars

\* Two spans entered alike and closed alike are two entries of bars, and a
\* third span is open.
C21_Witness ==
    /\ BagCardinality(bars) = 2
    /\ Cardinality(BagToSet(bars)) = 1
    /\ Len(started_bars) = 1

\* C24: channel_map has no name twice, and every span, open or closed, has
\* a channel below the length of channel_map whose entry is the span's
\* name.
C24_ChannelMapConsistent ==
    /\ \A i, j \in 1..Len(channel_map) : channel_map[i] = channel_map[j] => i = j
    /\ \A i \in 1..Len(started_bars) :
           /\ started_bars[i].channel < Len(channel_map)
           /\ channel_map[started_bars[i].channel + 1] = started_bars[i].isr
    /\ \A e \in BagToSet(bars) :
           /\ e.data.channel < Len(channel_map)
           /\ channel_map[e.data.channel + 1] = e.data.isr

\* After a Reset (zoom is INITIAL_ZOOM) a span of B, the second channel, is
\* still open and a span has been closed since.
C24_Witness ==
    /\ zoom = INITIAL_ZOOM
    /\ channel_map = <<"A", "B">>
    /\ \E i \in 1..Len(started_bars) : started_bars[i].isr = "B"
    /\ bars = EmptyBag
    /\ max = 2

\* The indexes of the open spans of a name.
OpenOf(name) == {i \in 1..Len(started_bars) : started_bars[i].isr = name}

\* What C25 says of an Exited(name, t) on the Grid as it is.
EarlyExitLeavesOpen(name, t) ==
    LET g == add_event(Grid, t, Exited(name))
    IN  /\ g.bars = bars
        /\ g.started_bars = started_bars
        /\ \A t2 \in Times :
               Candidates(name, t2) # {} =>
                   LET h == add_event(g, t2, Exited(name))
                       first == SetMin(Candidates(name, t2))
                   IN  /\ h.started_bars = Without(started_bars, first)
                       /\ h.bars = bars (+) SetToBag({Closed(started_bars[first], t2)})

\* C25: an Exited(name, t) with t not after the start of any open span of
\* that name closes nothing and leaves started_bars as it was, so that an
\* Exited(name, t2) that follows, with t2 after the start of one of them,
\* closes the oldest of those.
C25_EarlyExitLeavesOpen ==
    [](\A name \in Names, t \in Times :
           (OpenOf(name) # {} /\ Candidates(name, t) = {}) =>
               EarlyExitLeavesOpen(name, t))

\* A was entered twice at 1: an exit of A at 1 closes neither, and the exit
\* at 2 after it closes the first.
C25_Witness ==
    /\ started_bars = <<Bar(1, None, "A", 0), Bar(1, None, "A", 0)>>
    /\ bars = EmptyBag
    /\ add_event(Grid, 1, Exited("A")).started_bars = started_bars
    /\ add_event(add_event(Grid, 1, Exited("A")), 2, Exited("A")).started_bars
           = <<Bar(1, None, "A", 0)>>

---------------------------------------------------------------------------
(* Order and conservation on the way from the socket to the span model.    *)

\* The line of a chunk on the wire: its timestamp, then the names of its
\* records.
LineOf(chunk) ==
    <<chunk.timestamp + 48>> \o [i \in 1..Len(chunk.events) |-> chunk.events[i].name[1]]

\* The lines of the Events among the items, each followed by its newline.
RECURSIVE EmittedText(_)
EmittedText(items) ==
    IF items = <<>> THEN <<>>
    ELSE (IF IsEvent(Head(items)) THEN LineOf(Head(items).chunk) \o <<NL>> ELSE <<>>)
             \o EmittedText(Tail(items))

\* C23: while the connection is read without error, the text received so
\* far (each chunk decoded on its own, in the order read) is the lines
\* emitted so far, each followed by its newline, followed by the buffer.
C23_BufferConservation ==
    state = "Running" => Text(chunks) = EmittedText(output) \o buffer

\* Three reads, the second of which completed a line, have left a line
\* emitted and a buffer that holds what a byte of no character decoded to.
C23_Witness ==
    /\ state = "Running"
    /\ Len(chunks) = 3
    /\ Len(EventsOf(output)) = 1
    /\ EventsOf(output)[1].chunk.events # <<>>
    /\ output[4].type = "Event"
    /\ \E i \in 1..Len(buffer) : buffer[i] = REPLACEMENT

\* The records of the Events among the items, each with the timestamp of
\* its chunk, in the order of the items and of the records in each chunk.
RECURSIVE AppliedRecords(_)
AppliedRecords(items) ==
    IF items = <<>> THEN <<>>
    ELSE (IF IsEvent(Head(items))
          THEN [i \in 1..Len(Head(items).chunk.events) |->
                    <<Head(items).chunk.timestamp, Head(items).chunk.events[i].name>>]
          ELSE <<>>)
             \o AppliedRecords(Tail(items))

---------------------------------------------------------------------------
(* The drawing (checked under SpecDraw).                                   *)

\* C26: whenever draw gives a colour to a channel not yet seen in the
\* frame, the number of channels coloured before it is below the number of
\* colours of the palette, whatever the width drawn on.
C26_PaletteInBounds ==
    \A w \in Widths : \A i \in palette_indexes(Grid, w) : i < PALETTE_LEN

====
